---- MODULE Spec2Model ----
(***************************************************************************)
(* Model of the Jira -> PostgreSQL synchronisation scripts.                *)
(*                                                                         *)
(*   src/jira_fields_3.py  incremental sync: one connection, SELECT then   *)
(*                         INSERT / UPDATE per leaf, commit every 100      *)
(*   src/jira_fields.py    first variant: one connection per recursive     *)
(*                         call, INSERT with a duplicate-key fallback      *)
(*                                                                         *)
(* Python strings are sequences of one-character strings, Python values    *)
(* and JSON trees are tagged records.  The table jira_fields_2 is a set of *)
(* rows; field_value holds the JSONB document as its text, or SQL NULL.    *)
(***************************************************************************)
EXTENDS Integers, Sequences, FiniteSets, TLC

(***************************************************************************)
(* Bounds of the model.                                                    *)
(***************************************************************************)
\* the longest list of issues one run processes
MaxIssues == 3

\* the most members of an object or array of a generated field tree
MaxWidth == 2

\* the most issues one page of the search holds
MaxBatch == 2

\* the largest total the search reports
MaxTotal == 3

(***************************************************************************)
(* Python strings.  A str is a sequence of one-character strings, over the *)
(* characters U+0001..U+00FF.                                              *)
(***************************************************************************)
\* Latin1[n + 1] is the character of code point n, sixteen to a row.  "" stands
\* for the code points left out, which a string of the model cannot hold:
\* U+0000, the line separators U+000B, U+001C..U+001E and U+0085, and the
\* grave accent U+0060
Latin1 == <<
    "", "", "", "", "", "", "", "", "", "\t", "\n", "", "\f", "\r", "", "",
    "", "", "", "", "", "", "", "", "", "", "", "", "", "", "", "",
    " ", "!", "\"", "#", "$", "%", "&", "'", "(", ")", "*", "+", ",", "-", ".", "/",
    "0", "1", "2", "3", "4", "5", "6", "7", "8", "9", ":", ";", "<", "=", ">", "?",
    "@", "A", "B", "C", "D", "E", "F", "G", "H", "I", "J", "K", "L", "M", "N", "O",
    "P", "Q", "R", "S", "T", "U", "V", "W", "X", "Y", "Z", "[", "\\", "]", "^", "_",
    "", "a", "b", "c", "d", "e", "f", "g", "h", "i", "j", "k", "l", "m", "n", "o",
    "p", "q", "r", "s", "t", "u", "v", "w", "x", "y", "z", "{", "|", "}", "~", "",
    "", "", "", "", "", "", "", "", "", "", "", "", "", "", "", "",
    "", "", "", "", "", "", "", "", "", "", "", "", "", "", "", "",
    " ", "¡", "¢", "£", "¤", "¥", "¦", "§", "¨", "©", "ª", "«", "¬", "­", "®", "¯",
    "°", "±", "²", "³", "´", "µ", "¶", "·", "¸", "¹", "º", "»", "¼", "½", "¾", "¿",
    "À", "Á", "Â", "Ã", "Ä", "Å", "Æ", "Ç", "È", "É", "Ê", "Ë", "Ì", "Í", "Î", "Ï",
    "Ð", "Ñ", "Ò", "Ó", "Ô", "Õ", "Ö", "×", "Ø", "Ù", "Ú", "Û", "Ü", "Ý", "Þ", "ß",
    "à", "á", "â", "ã", "ä", "å", "æ", "ç", "è", "é", "ê", "ë", "ì", "í", "î", "ï",
    "ð", "ñ", "ò", "ó", "ô", "õ", "ö", "÷", "ø", "ù", "ú", "û", "ü", "ý", "þ", "ÿ">>

\* ord(c)
ord(c) == (CHOOSE k \in 1..256 : Latin1[k] = c) - 1

\* chr(n)
chr(n) == CHOOSE c \in {Latin1[n + 1]} : c # ""

Digits == <<"0", "1", "2", "3", "4", "5", "6", "7", "8", "9">>

\* str(n), as the f-string f"{parent_key}_{i}" renders an index and as
\* json.dumps renders an int
RECURSIVE str(_)
str(n) == IF n < 0 THEN <<"-">> \o str(0 - n)
          ELSE IF n < 10 THEN <<Digits[n + 1]>>
          ELSE str(n \div 10) \o <<Digits[(n % 10) + 1]>>

\* str.lower() on one character: A..Z and the capitals U+00C0..U+00DE (the
\* multiplication sign U+00D7 is no letter) have their small letter 32 further on
lower_char(c) ==
    IF ord(c) \in 65..90 \/ (ord(c) \in 192..222 /\ ord(c) # 215)
    THEN chr(ord(c) + 32)
    ELSE c

\* str.lower()
lower(s) == [k \in 1..Len(s) |-> lower_char(s[k])]

\* str.replace(old, new) for one-character old and new
replace(s, old, new) == [k \in 1..Len(s) |-> IF s[k] = old THEN new ELSE s[k]]

\* f"mss_{field_name.lower().replace(' ', '_')}"
transform_field_name(field_name) ==
    <<"m", "s", "s", "_">> \o replace(lower(field_name), " ", "_")

(***************************************************************************)
(* Python values and JSON.  The scalars are None, bool, int and str.       *)
(***************************************************************************)
None == [t |-> "none"]

PyBool(b) == [t |-> "bool", v |-> b]

PyInt(n) == [t |-> "int", v |-> n]

PyStr(s) == [t |-> "str", v |-> s]

PyDict(items) == [t |-> "dict", items |-> items]

PyList(items) == [t |-> "list", items |-> items]

Quote == "\""

Backslash == "\\"

HexDigits == <<"0", "1", "2", "3", "4", "5", "6", "7", "8", "9",
               "a", "b", "c", "d", "e", "f">>

\* '\\u{0:04x}'.format(n) for n < 256
unicode_escape(n) ==
    <<Backslash, "u", "0", "0", HexDigits[(n \div 16) + 1], HexDigits[(n % 16) + 1]>>

\* json.dumps with ensure_ascii on one character: the quote, the backslash and
\* every character outside ' '..'~' are escaped, five control characters by a
\* letter and the others by their code point
escape_char(c) ==
    CASE c = Quote     -> <<Backslash, Quote>>
      [] c = Backslash -> <<Backslash, Backslash>>
      [] c = "\n"      -> <<Backslash, "n">>
      [] c = "\r"      -> <<Backslash, "r">>
      [] c = "\t"      -> <<Backslash, "t">>
      [] c = "\f"      -> <<Backslash, "f">>
      [] c = chr(8)    -> <<Backslash, "b">>
      [] OTHER         -> IF ord(c) \in 32..126 THEN <<c>> ELSE unicode_escape(ord(c))

\* json.dumps of a str: the characters between the quotes
RECURSIVE json_escape(_)
json_escape(s) ==
    IF s = <<>> THEN <<>>
    ELSE escape_char(Head(s)) \o json_escape(Tail(s))

\* json.dumps(data) for a scalar: the JSON text, a Python str
json_dumps(data) ==
    CASE data.t = "none" -> PyStr(<<"n", "u", "l", "l">>)
      [] data.t = "bool" -> PyStr(IF data.v THEN <<"t", "r", "u", "e">>
                                  ELSE <<"f", "a", "l", "s", "e">>)
      [] data.t = "int"  -> PyStr(str(data.v))
      [] data.t = "str"  -> PyStr(<<Quote>> \o json_escape(data.v) \o <<Quote>>)

\* int(c, 16) for one hexadecimal digit, of either case
HexValue(c) ==
    IF \E k \in 1..16 : HexDigits[k] = c
    THEN (CHOOSE k \in 1..16 : HexDigits[k] = c) - 1
    ELSE (CHOOSE k \in 11..16 : lower_char(c) = HexDigits[k]) - 1

\* the character a backslash and the letter c of a JSON string stand for
unescape_char(c) ==
    CASE c = "n" -> "\n"
      [] c = "r" -> "\r"
      [] c = "t" -> "\t"
      [] c = "f" -> "\f"
      [] c = "b" -> chr(8)
      [] c \in {Quote, Backslash, "/"} -> c

\* the characters of a JSON string literal, escapes undone
RECURSIVE json_unescape(_)
json_unescape(s) ==
    IF s = <<>> THEN <<>>
    ELSE IF Head(s) # Backslash THEN <<Head(s)>> \o json_unescape(Tail(s))
    ELSE IF s[2] = "u"
    THEN <<chr(4096 * HexValue(s[3]) + 256 * HexValue(s[4])
               + 16 * HexValue(s[5]) + HexValue(s[6]))>>
         \o json_unescape(SubSeq(s, 7, Len(s)))
    ELSE <<unescape_char(s[2])>> \o json_unescape(SubSeq(s, 3, Len(s)))

DigitValue(c) == (CHOOSE k \in 1..10 : Digits[k] = c) - 1

\* int(s) for a str of digits with an optional sign
RECURSIVE int_of(_)
int_of(s) == IF Head(s) = "-" THEN 0 - int_of(Tail(s))
             ELSE IF Len(s) = 1 THEN DigitValue(s[1])
             ELSE 10 * int_of(SubSeq(s, 1, Len(s) - 1)) + DigitValue(s[Len(s)])

\* json.loads(text) for the text of a JSON scalar
json_loads(text) ==
    IF text = <<"n", "u", "l", "l">> THEN None
    ELSE IF text = <<"t", "r", "u", "e">> THEN PyBool(TRUE)
    ELSE IF text = <<"f", "a", "l", "s", "e">> THEN PyBool(FALSE)
    ELSE IF text[1] = Quote
    THEN PyStr(json_unescape(SubSeq(text, 2, Len(text) - 1)))
    ELSE PyInt(int_of(text))

\* the number a bool or an int compares as: True == 1 and False == 0
number(a) == IF a.t = "bool" THEN (IF a.v THEN 1 ELSE 0) ELSE a.v

\* Python's a != b on the values that meet in check_and_update_field
py_ne(a, b) ==
    IF a.t \in {"bool", "int"} /\ b.t \in {"bool", "int"} THEN number(a) # number(b)
    ELSE IF a.t # b.t THEN TRUE
    ELSE IF a.t = "none" THEN FALSE
    ELSE a.v # b.v

(***************************************************************************)
(* The table jira_fields_2 and the statements the scripts execute on it.   *)
(***************************************************************************)
SqlNull == [t |-> "null"]

Jsonb(text) == [t |-> "jsonb", v |-> text]

\* a query parameter bound to the JSONB column: None is NULL, a str is cast to jsonb
adapt(param) == IF param.t = "none" THEN SqlNull ELSE Jsonb(param.v)

\* a JSONB column read back by the driver: NULL is None, a document is parsed
typecast(value) == IF value.t = "null" THEN None ELSE json_loads(value.v)

Row(issue_key, field_id, field_name, field_value) ==
    [issue_key |-> issue_key, field_id |-> field_id,
     field_name |-> field_name, field_value |-> field_value]

\* the rows WHERE issue_key = %s AND field_id = %s
Matching(tbl, issue_key, field_id) ==
    {r \in tbl : r.issue_key = issue_key /\ r.field_id = field_id}

\* cur.execute(check_query); cur.fetchone(): None, or the one-column row as a tuple
fetchone(tbl, issue_key, field_id) ==
    IF Matching(tbl, issue_key, field_id) = {} THEN None
    ELSE LET r == CHOOSE x \in Matching(tbl, issue_key, field_id) : TRUE
         IN  [t |-> "tuple", items |-> <<typecast(r.field_value)>>]

\* Python truthiness
truth(x) == CASE x.t = "none"  -> FALSE
              [] x.t = "tuple" -> Len(x.items) > 0
              [] x.t = "str"   -> Len(x.v) > 0
              [] x.t = "bool"  -> x.v
              [] x.t = "int"   -> x.v # 0
              [] OTHER         -> Len(x.items) > 0

\* PRIMARY KEY (issue_key, field_id): an INSERT of a key that is present is refused
violates_primary_key(tbl, row) == Matching(tbl, row.issue_key, row.field_id) # {}

\* INSERT INTO jira_fields_2 ... VALUES (...), on a table the key is absent from
insert_row(tbl, row) == tbl \cup {row}

\* UPDATE jira_fields_2 SET field_value = %s WHERE issue_key = %s AND field_id = %s
update_rows(tbl, issue_key, field_id, field_value) ==
    {IF r.issue_key = issue_key /\ r.field_id = field_id
     THEN [r EXCEPT !.field_value = field_value] ELSE r : r \in tbl}

(***************************************************************************)
(* Faults of the storage backend: the statement of one leaf may raise.     *)
(***************************************************************************)
NoFault == [at |-> 0, stmt |-> "none", kind |-> "none"]

FaultKinds == {"write_error", "connection_error"}

Faults(nleaves) ==
    {NoFault} \cup [at : 1..nleaves, stmt : {"select", "write"}, kind : FaultKinds]

\* one statement of one leaf, as the run observed it
Absent == [t |-> "absent"]

\* the field_value the table holds for a key before a statement, or Absent
Stored(tbl, issue_key, field_id) ==
    IF Matching(tbl, issue_key, field_id) = {} THEN Absent
    ELSE (CHOOSE x \in Matching(tbl, issue_key, field_id) : TRUE).field_value

Entry(op, issue_key, field_id, field_name, param, stored, raised) ==
    [op |-> op, issue_key |-> issue_key, field_id |-> field_id,
     field_name |-> field_name, field_value |-> adapt(param),
     stored |-> stored, raised |-> raised]

\* a row counts as present only when its value is truthy: "if result and result[0]:"
field_exists_by_value(result) == truth(result) /\ truth(result.items[1])

\* the test "if result:" of check_and_update_field
field_exists(result) == truth(result)

\* the test "if current_value != new_field_value:" of check_and_update_field
value_changed(current_value, new_field_value) == py_ne(current_value, new_field_value)

\* check_and_update_field(cur, issue_key, field_id, new_field_value) on the
\* connection's view tbl of the table; fault is the fault of this call, if any
check_and_update_field(tbl, issue_key, field_id, new_field_value, fault) ==
    LET result  == fetchone(tbl, issue_key, field_id)
        name    == transform_field_name(field_id)
        E(op, nm, raised) ==
            Entry(op, issue_key, field_id, nm, new_field_value,
                  Stored(tbl, issue_key, field_id), raised)
    IN  IF fault.stmt = "select"
        THEN [tbl |-> tbl, entry |-> E("SELECT", <<>>, fault.kind)]
        ELSE IF field_exists(result)
        THEN IF value_changed(result.items[1], new_field_value)
             THEN IF fault.stmt = "write"
                  THEN [tbl |-> tbl, entry |-> E("UPDATE", <<>>, fault.kind)]
                  ELSE [tbl   |-> update_rows(tbl, issue_key, field_id,
                                              adapt(new_field_value)),
                        entry |-> E("UPDATE", <<>>, "none")]
             ELSE [tbl |-> tbl, entry |-> E("SKIP", <<>>, "none")]
        ELSE IF fault.stmt = "write"
             THEN [tbl |-> tbl, entry |-> E("INSERT", name, fault.kind)]
             ELSE IF violates_primary_key(
                        tbl, Row(issue_key, field_id, name, adapt(new_field_value)))
             THEN [tbl |-> tbl, entry |-> E("INSERT", name, "UniqueViolation")]
             ELSE [tbl   |-> insert_row(tbl, Row(issue_key, field_id, name,
                                                 adapt(new_field_value))),
                   entry |-> E("INSERT", name, "none")]

(***************************************************************************)
(* Flattening.                                                             *)
(***************************************************************************)
Leaf(field_id, data) == [field_id |-> field_id, data |-> data]

\* the calls check_and_update_field(cur, issue_key, parent_key, ...) that
\* flatten_json_and_insert(issue_key, data, parent_key, cur) reaches, in order
RECURSIVE flatten(_, _), flatten_dict(_, _, _), flatten_list(_, _, _)
flatten(data, parent_key) ==
    IF data.t = "dict" THEN flatten_dict(data.items, parent_key, 1)
    ELSE IF data.t = "list" THEN flatten_list(data.items, parent_key, 1)
    ELSE <<Leaf(parent_key, data)>>

flatten_dict(items, parent_key, k) ==
    IF k > Len(items) THEN <<>>
    ELSE flatten(items[k].v,
                 IF truth(PyStr(parent_key))
                 THEN parent_key \o <<"_">> \o items[k].k
                 ELSE items[k].k)
         \o flatten_dict(items, parent_key, k + 1)

flatten_list(items, parent_key, k) ==
    IF k > Len(items) THEN <<>>
    ELSE flatten(items[k], parent_key \o <<"_">> \o str(k - 1))
         \o flatten_list(items, parent_key, k + 1)

\* new_field_value = json.dumps(data) if data is not None else None
serialize(data) == IF data.t # "none" THEN json_dumps(data) ELSE None

\* the leaves of one record reconciled in order; the first statement that raises
\* ends the call (the exception leaves every frame of the recursion)
RECURSIVE reconcile_leaves(_, _, _, _, _, _)
reconcile_leaves(tbl, issue_key, leaves, k, fault, log) ==
    IF k > Len(leaves) THEN [tbl |-> tbl, log |-> log, raised |-> "none"]
    ELSE LET r == check_and_update_field(tbl, issue_key, leaves[k].field_id,
                                         serialize(leaves[k].data),
                                         IF fault.at = k THEN fault ELSE NoFault)
         IN  IF r.entry.raised # "none"
             THEN [tbl |-> r.tbl, log |-> Append(log, r.entry), raised |-> r.entry.raised]
             ELSE reconcile_leaves(r.tbl, issue_key, leaves, k + 1, fault,
                                   Append(log, r.entry))

\* flatten_json_and_insert(issue_key, issue_fields, parent_key='', cur=cur)
flatten_json_and_insert(tbl, issue_key, data, fault) ==
    reconcile_leaves(tbl, issue_key, flatten(data, <<>>), 1, fault, <<>>)

(***************************************************************************)
(* The records a run is given: issue.key and issue.raw['fields'].          *)
(***************************************************************************)
IssueKeys == {"MSSCI-1", "MSSCI-2"}

Item(k, v) == [k |-> k, v |-> v]

\* {"a": {"b": s}, "c": [10, 20]}: the tree of the specification's examples
Nested(s) ==
    PyDict(<<Item(<<"a">>, PyDict(<<Item(<<"b">>, s)>>)),
             Item(<<"c">>, PyList(<<PyInt(10), PyInt(20)>>))>>)

\* {"Due d": s}: a field whose name has capitals and a space
Flat(s) == PyDict(<<Item(<<"D", "u", "e", " ", "d">>, s)>>)

FieldTrees ==
    {Nested(s) : s \in {None, PyInt(1), PyInt(2)}}
    \cup {Flat(s) : s \in {None, PyStr(<<"x">>)}}

Issue(key, fields) == [key |-> key, fields |-> fields]

Issues == {Issue(k, f) : k \in IssueKeys, f \in FieldTrees}

NoIssue == [key |-> "", fields |-> None]

(***************************************************************************)
(* The run of jira_fields_3.py, from the fetched list of issues on.         *)
(***************************************************************************)
VARIABLES
    pc,       \* "create": before create_jira_fields_table(); "loop": in the for
              \* loop of __main__; "done": the script has ended
    i,        \* issues the loop has taken from the list
    store,    \* jira_fields_2 as every other connection sees it (committed)
    work,     \* jira_fields_2 as the run's open transaction sees it
    conn,     \* the connection of the loop: "none", "open" or "closed"
    issue,    \* the issue of the last iteration
    log,      \* the statements of the last iteration, in order
    raised,   \* the exception that ended the loop, or "none"
    commits,  \* each conn.commit(): the issues reconciled so far, what it made durable
    rel,      \* how the issue of the last iteration relates to the one before it
    open_conns,   \* connections the script has opened and has not closed
    fpc,          \* fetch_all_issues: "loop" or "returned"
    issues,       \* fetch_all_issues: the list issues
    start_at,     \* fetch_all_issues: start_at
    total_issues, \* fetch_all_issues: total_issues
    wpc,      \* per worker: "select", "write", "commit", "done" or "failed"
    wvalue,   \* per worker: the new_field_value of its call
    wresult,  \* per worker: the result of its cur.fetchone()
    wtx       \* per worker: the statement its open transaction holds, if any

runVars == <<pc, i, store, work, conn, issue, log, raised, commits, rel, open_conns>>

fetchVars == <<fpc, issues, start_at, total_issues>>

raceVars == <<wpc, wvalue, wresult, wtx>>

vars == <<runVars, fetchVars, raceVars>>

Workers == {1, 2}

NoStatement == [op |-> "none"]

\* "Commit every 100 issues": if i % 100 == 0
CommitEvery == 100

Commit(kind, n, view) == [kind |-> kind, n |-> n, view |-> view]

\* conn.commit(): the transaction's view becomes the committed table
commit(committed, view) == view

\* a connection whose close makes the open transaction durable (autocommit)
close_keeps_transaction(committed, view) == view

\* conn.close() with the transaction open: the server rolls it back
close(committed, view) == committed

\* the leaves at which two flattenings of one issue key differ in value
ChangedLeaves(old, new) ==
    {k \in 1..Len(new) : old[k].data # new[k].data}

\* how a record relates to the record reconciled before it
Relation(old, new) ==
    LET a == flatten(old.fields, <<>>)
        b == flatten(new.fields, <<>>)
    IN  IF old = NoIssue THEN [kind |-> "first", at |-> 0]
        ELSE IF old = new THEN [kind |-> "same", at |-> 0]
        ELSE IF /\ old.key = new.key
                /\ Len(a) = Len(b)
                /\ \A k \in 1..Len(a) : a[k].field_id = b[k].field_id
                /\ Cardinality(ChangedLeaves(a, b)) = 1
        THEN [kind |-> "one_leaf", at |-> CHOOSE k \in ChangedLeaves(a, b) : TRUE]
        ELSE [kind |-> "other", at |-> 0]

\* a script about to run from first_pc, holding n open connections
Start(first_pc, connection, n) ==
    /\ pc = first_pc
    /\ i = 0
    /\ store = {}
    /\ work = {}
    /\ conn = connection
    /\ open_conns = n
    /\ issue = NoIssue
    /\ log = <<>>
    /\ raised = "none"
    /\ commits = <<>>
    /\ rel = [kind |-> "none", at |-> 0]
    /\ fpc = "loop"
    /\ issues = <<>>
    /\ start_at = 0
    /\ total_issues = 1
    /\ wpc = [w \in Workers |-> "select"]
    /\ wvalue = [w \in Workers |-> None]
    /\ wresult = [w \in Workers |-> None]
    /\ wtx = [w \in Workers |-> NoStatement]

\* jira_fields_3.py at "if issues:", before create_jira_fields_table()
Init == Start("create", "none", 0)

\* create_jira_fields_table(), then "conn = psycopg2.connect(...)" of __main__.
\* The function connects, executes CREATE TABLE IF NOT EXISTS, commits and
\* closes, all inside one try whose handler only logs: a statement that raises
\* skips both closes, and the script goes on to open the connection of the loop
CreateTable ==
    /\ pc = "create"
    /\ \E statement_raises \in BOOLEAN :
          open_conns' = IF statement_raises THEN open_conns + 2 ELSE open_conns + 1
    /\ conn' = "open"
    /\ pc' = "loop"
    /\ UNCHANGED <<i, store, work, issue, log, raised, commits, rel>>
    /\ UNCHANGED <<fetchVars, raceVars>>

\* one iteration of "for i, issue in enumerate(issues)": flatten_json_and_insert,
\* then the commit of every 100th; an exception leaves the loop through
\* "except Exception" and "finally", which closes the connection
ProcessIssue ==
    /\ pc = "loop"
    /\ i < MaxIssues
    /\ \E next \in Issues :
       \E fault \in Faults(Len(flatten(next.fields, <<>>))) :
          LET r == flatten_json_and_insert(work, next.key, next.fields, fault)
          IN  /\ issue' = next
              /\ rel' = Relation(issue, next)
              /\ log' = r.log
              /\ raised' = r.raised
              /\ i' = i + 1
              /\ IF r.raised = "none"
                 THEN /\ work' = r.tbl
                      /\ IF i % CommitEvery = 0
                         THEN /\ store' = commit(store, r.tbl)
                              /\ commits' = Append(commits, Commit("batch", i + 1, r.tbl))
                         ELSE UNCHANGED <<store, commits>>
                      /\ UNCHANGED <<pc, conn, open_conns>>
                 ELSE /\ store' = close(store, r.tbl)
                      /\ work' = store'
                      /\ conn' = "closed"
                      /\ open_conns' = open_conns - 1
                      /\ pc' = "done"
                      /\ UNCHANGED commits
    /\ UNCHANGED <<fetchVars, raceVars>>

\* the list is exhausted: "Final commit for any remaining issues", then finally
FinishRun ==
    /\ pc = "loop"
    /\ i >= 1
    /\ store' = close(commit(store, work), work)
    /\ work' = store'
    /\ commits' = Append(commits, Commit("final", i, work))
    /\ conn' = "closed"
    /\ open_conns' = open_conns - 1
    /\ pc' = "done"
    /\ UNCHANGED <<i, issue, log, raised, rel>>
    /\ UNCHANGED <<fetchVars, raceVars>>

Next == CreateTable \/ ProcessIssue \/ FinishRun

Spec == Init /\ [][Next]_vars

(***************************************************************************)
(* The run of jira_fields.py: the table is dropped and created, then every *)
(* leaf is inserted on a connection of its own and committed at once.      *)
(***************************************************************************)
\* the leaf branch of flatten_json_and_insert(issue_key, data, parent_key, counter):
\* INSERT, and on UniqueViolation the same INSERT under parent_key_counter.  The
\* second execute runs in the transaction the first one aborted, so the server
\* refuses it (InFailedSqlTransaction) and the call raises.
insert_leaf(tbl, issue_key, parent_key, data, counter, fault) ==
    LET name  == transform_field_name(parent_key)
        value == json_dumps(data)
        row   == Row(issue_key, parent_key, name, adapt(value))
        new_key_with_counter == parent_key \o <<"_">> \o str(counter)
        first(exc) == Entry("INSERT", issue_key, parent_key, name, value,
                            Stored(tbl, issue_key, parent_key), exc)
        second == Entry("INSERT", issue_key, new_key_with_counter, name, value,
                        Stored(tbl, issue_key, new_key_with_counter),
                        "InFailedSqlTransaction")
    IN  IF fault.stmt = "write"
        THEN [tbl |-> tbl, entries |-> <<first(fault.kind)>>, raised |-> fault.kind]
        ELSE IF violates_primary_key(tbl, row)
        THEN [tbl |-> tbl, entries |-> <<first("UniqueViolation"), second>>,
              raised |-> "InFailedSqlTransaction"]
        ELSE [tbl |-> insert_row(tbl, row), entries |-> <<first("none")>>,
              raised |-> "none"]

\* the leaves of one record inserted in order, each committed by its own call;
\* the recursive calls pass no counter, so every leaf sees counter = 0
RECURSIVE insert_leaves(_, _, _, _, _, _)
insert_leaves(tbl, issue_key, leaves, k, fault, entries) ==
    IF k > Len(leaves) THEN [tbl |-> tbl, log |-> entries, raised |-> "none"]
    ELSE LET r == insert_leaf(tbl, issue_key, leaves[k].field_id, leaves[k].data, 0,
                              IF fault.at = k THEN fault ELSE NoFault)
         IN  IF r.raised # "none"
             THEN [tbl |-> r.tbl, log |-> entries \o r.entries, raised |-> r.raised]
             ELSE insert_leaves(r.tbl, issue_key, leaves, k + 1, fault,
                                entries \o r.entries)

\* flatten_json_and_insert(issue_key, issue_fields, parent_key='', counter=0)
flatten_json_and_insert_v1(tbl, issue_key, data, fault) ==
    insert_leaves(tbl, issue_key, flatten(data, <<>>), 1, fault, <<>>)

\* the calls of flatten_json_and_insert on the stack when each leaf is reached:
\* the call of the leaf and of every object or array around it, depth-first
RECURSIVE call_depths(_, _), member_depths(_, _, _)
call_depths(data, depth) ==
    IF data.t \in {"dict", "list"} THEN member_depths(data, depth + 1, 1)
    ELSE <<depth>>

member_depths(data, depth, k) ==
    IF k > Len(data.items) THEN <<>>
    ELSE call_depths(IF data.t = "dict" THEN data.items[k].v ELSE data.items[k], depth)
         \o member_depths(data, depth, k + 1)

\* the leaf whose statement raised: the one after the leaves that went through
FailedLeaf(entries) == Cardinality({k \in 1..Len(entries) : entries[k].raised = "none"}) + 1

\* the connections one call of flatten_json_and_insert(issue_key, issue_fields)
\* leaves open.  Every call connects on entry and closes as its last statement,
\* so an exception skips the close of the leaf's call and of every call above it.
connections_left_open(data, r) ==
    IF r.raised = "none" THEN 0
    ELSE call_depths(data, 1)[FailedLeaf(r.log)]

\* jira_fields.py before create_jira_fields_table()
V1Init == Start("create", "none", 0)

\* create_jira_fields_table(): connect, DROP, CREATE, commit, close, all inside
\* one try whose handler only prints; a statement that raises skips both closes
V1CreateTable ==
    /\ pc = "create"
    /\ \E statement_raises \in BOOLEAN :
          open_conns' = IF statement_raises THEN open_conns + 1 ELSE open_conns
    /\ pc' = "loop"
    /\ UNCHANGED <<i, store, work, conn, issue, log, raised, commits, rel>>
    /\ UNCHANGED <<fetchVars, raceVars>>

WriteFaults(nleaves) == {f \in Faults(nleaves) : f.stmt # "select"}

\* one iteration of "for issue in tqdm(issues)"; an exception ends the script
V1ProcessIssue ==
    /\ pc = "loop"
    /\ i < MaxIssues
    /\ \E next \in Issues :
       \E fault \in WriteFaults(Len(flatten(next.fields, <<>>))) :
          LET r == flatten_json_and_insert_v1(store, next.key, next.fields, fault)
          IN  /\ issue' = next
              /\ rel' = Relation(issue, next)
              /\ log' = r.log
              /\ raised' = r.raised
              /\ i' = i + 1
              /\ store' = r.tbl
              /\ work' = r.tbl
              /\ pc' = IF r.raised = "none" THEN "loop" ELSE "done"
              /\ open_conns' = open_conns + connections_left_open(next.fields, r)
              /\ UNCHANGED <<conn, commits>>
    /\ UNCHANGED <<fetchVars, raceVars>>

\* the list is exhausted
V1Finish ==
    /\ pc = "loop"
    /\ i >= 1
    /\ pc' = "done"
    /\ UNCHANGED <<i, store, work, conn, issue, log, raised, commits, rel, open_conns>>
    /\ UNCHANGED <<fetchVars, raceVars>>

V1Next == V1CreateTable \/ V1ProcessIssue \/ V1Finish

V1Spec == V1Init /\ [][V1Next]_vars

(***************************************************************************)
(* Field trees in general: objects and arrays of up to MaxWidth members,   *)
(* nested once, the keys of one object pairwise distinct.                   *)
(***************************************************************************)
TreeKeys == {<<"a">>, <<"b">>, <<"a", "_", "b">>, <<"a", "_", "0">>}

TreeScalars == {PyInt(1)}

\* the sequences of 1..MaxWidth members: keys from TreeKeys, no key twice
Members(values) ==
    UNION {{m \in [1..n -> [k : TreeKeys, v : values]] :
               \A x, y \in 1..n : x # y => m[x].k # m[y].k} : n \in 1..MaxWidth}

Elements(values) == UNION {[1..n -> values] : n \in 1..MaxWidth}

InnerTrees ==
    TreeScalars
    \cup {PyDict(m) : m \in Members(TreeScalars)}
    \cup {PyList(e) : e \in Elements(TreeScalars)}

Trees == {PyDict(m) : m \in Members(InnerTrees)}

\* one record of any shape reconciled into the empty table by jira_fields_3.py:
\* the first iteration with its commit, the final commit and the close
ReconcileTree ==
    /\ pc = "loop"
    /\ i = 0
    /\ \E fields \in Trees :
          LET r == flatten_json_and_insert(work, "MSSCI-1", fields, NoFault)
          IN  /\ issue' = Issue("MSSCI-1", fields)
              /\ log' = r.log
              /\ work' = r.tbl
              /\ store' = close(commit(store, r.tbl), r.tbl)
              /\ commits' = <<Commit("batch", 1, r.tbl), Commit("final", 1, r.tbl)>>
              /\ raised' = r.raised
              /\ rel' = Relation(issue, issue')
              /\ i' = 1
              /\ conn' = "closed"
              /\ open_conns' = open_conns - 1
              /\ pc' = "done"
    /\ UNCHANGED <<fetchVars, raceVars>>

FlattenNext == CreateTable \/ ReconcileTree

FlattenSpec == Init /\ [][FlattenNext]_vars

(***************************************************************************)
(* fetch_all_issues of jira_fields_3.py.  The search is the environment:   *)
(* a page is any list of up to MaxBatch issues, the total any number up to *)
(* MaxTotal, and the request may raise.                                    *)
(***************************************************************************)
Batches == UNION {[1..n -> Issues] : n \in 0..MaxBatch}

\* one pass of "while start_at < total_issues": the request and the bookkeeping,
\* or the exception, which is logged and breaks the loop
FetchPage ==
    /\ fpc = "loop"
    /\ start_at < total_issues
    /\ \/ \E batch \in Batches, total \in 0..MaxTotal :
             /\ issues' = issues \o batch
             /\ total_issues' = total
             /\ start_at' = start_at + Len(batch)
             /\ fpc' = "loop"
       \/ /\ fpc' = "returned"
          /\ UNCHANGED <<issues, start_at, total_issues>>
    /\ UNCHANGED <<runVars, raceVars>>

\* the loop condition fails: return issues
FetchReturn ==
    /\ fpc = "loop"
    /\ ~(start_at < total_issues)
    /\ fpc' = "returned"
    /\ UNCHANGED <<issues, start_at, total_issues>>
    /\ UNCHANGED <<runVars, raceVars>>

FetchNext == FetchPage \/ FetchReturn

\* the interpreter keeps running the loop
FetchSpec == Init /\ [][FetchNext]_vars /\ WF_vars(FetchPage) /\ WF_vars(FetchReturn)

(***************************************************************************)
(* Two runs of jira_fields_3.py at once, each on its own connection, each  *)
(* reconciling the same (issue_key, field_id).  A statement that meets a   *)
(* row another open transaction has written waits for that transaction.    *)
(***************************************************************************)
RaceKey == "MSSCI-1"

RaceField == <<"a">>

RaceRow(value) == Row(RaceKey, RaceField, transform_field_name(RaceField), value)

Other(w) == CHOOSE o \in Workers : o # w

\* the other transaction holds an uncommitted write of the row
MustWait(w) == wtx[Other(w)].op # "none"

\* the SELECT of check_and_update_field, on what is committed
WSelect(w) ==
    /\ wpc[w] = "select"
    /\ \E data \in {None, PyInt(1), PyInt(2)} :
          wvalue' = [wvalue EXCEPT ![w] = serialize(data)]
    /\ wresult' = [wresult EXCEPT ![w] = fetchone(store, RaceKey, RaceField)]
    /\ wpc' = [wpc EXCEPT ![w] = "write"]
    /\ UNCHANGED <<wtx, runVars, fetchVars>>

\* the UPDATE, the INSERT or neither, as the result of the SELECT decides; a
\* UniqueViolation leaves through "except Exception" and "finally"
WWrite(w) ==
    /\ wpc[w] = "write"
    /\ IF field_exists(wresult[w])
       THEN IF value_changed(wresult[w].items[1], wvalue[w])
            THEN /\ ~MustWait(w)
                 /\ wtx' = [wtx EXCEPT ![w] = [op |-> "UPDATE"]]
                 /\ wpc' = [wpc EXCEPT ![w] = "commit"]
            ELSE /\ wpc' = [wpc EXCEPT ![w] = "commit"]
                 /\ UNCHANGED wtx
       ELSE /\ ~MustWait(w)
            /\ IF violates_primary_key(store, RaceRow(adapt(wvalue[w])))
               THEN /\ wpc' = [wpc EXCEPT ![w] = "failed"]
                    /\ UNCHANGED wtx
               ELSE /\ wtx' = [wtx EXCEPT ![w] = [op |-> "INSERT"]]
                    /\ wpc' = [wpc EXCEPT ![w] = "commit"]
    /\ UNCHANGED <<wvalue, wresult, runVars, fetchVars>>

\* conn.commit() of the first issue (i = 0), the final commit and the close
WCommit(w) ==
    /\ wpc[w] = "commit"
    /\ store' = CASE wtx[w].op = "INSERT" ->
                         commit(store, insert_row(store, RaceRow(adapt(wvalue[w]))))
                  [] wtx[w].op = "UPDATE" ->
                         commit(store, update_rows(store, RaceKey, RaceField,
                                                   adapt(wvalue[w])))
                  [] OTHER -> store
    /\ wtx' = [wtx EXCEPT ![w] = NoStatement]
    /\ wpc' = [wpc EXCEPT ![w] = "done"]
    /\ UNCHANGED <<wvalue, wresult, fetchVars>>
    /\ UNCHANGED <<pc, i, work, conn, issue, log, raised, commits, rel, open_conns>>

RaceNext == \E w \in Workers : WSelect(w) \/ WWrite(w) \/ WCommit(w)

RaceSpec == Init /\ [][RaceNext]_vars

(***************************************************************************)
(* Properties of the run of jira_fields_3.py.                              *)
(***************************************************************************)
Writes(l) == {k \in 1..Len(l) : l[k].op \in {"INSERT", "UPDATE"}}

Reconciled == raised = "none" /\ issue # NoIssue

LastCommitted == IF commits = <<>> THEN {} ELSE commits[Len(commits)].view

\* C1: reconciling a record and then the same, unchanged record again issues
\* no INSERT and no UPDATE on the second pass (every leaf is a Skip) and
\* leaves the table as it was.
C1_Idempotence ==
    [][(i' = i + 1 /\ rel'.kind = "same" /\ raised' = "none")
          => (Writes(log') = {} /\ work' = work)]_vars

\* C2: reconciling a record again with exactly one leaf's value altered
\* issues exactly one UPDATE, on that leaf and with the new value, no INSERT,
\* and skips every other leaf.
C2_ChangeDetection ==
    (Reconciled /\ rel.kind = "one_leaf")
        => /\ Writes(log) = {rel.at}
           /\ log[rel.at].op = "UPDATE"
           /\ log[rel.at].field_value =
                  adapt(serialize(flatten(issue.fields, <<>>)[rel.at].data))

\* C3: a leaf whose value is null gets a row holding a stored null (so the
\* path differs from one that was never flattened, which has no row), and a
\* row that holds null is found present by a later reconcile: it is never
\* inserted again.
C3_NullIsPresent ==
    /\ \A k \in 1..Len(log) :
          log[k].stored = SqlNull => log[k].op # "INSERT"
    /\ Reconciled =>
          \A k \in 1..Len(log) :
             (/\ log[k].field_value = SqlNull
              /\ \A m \in (k + 1)..Len(log) : log[m].field_id # log[k].field_id)
                => \E r \in work : /\ r.issue_key = log[k].issue_key
                                   /\ r.field_id = log[k].field_id
                                   /\ r.field_value = SqlNull

\* C3 witness: a later reconcile met a row holding null and skipped it
C3_Witness ==
    /\ Reconciled
    /\ \E k \in 1..Len(log) : /\ log[k].stored = SqlNull
                              /\ log[k].field_value = SqlNull
                              /\ log[k].op = "SKIP"

\* C4: when a reconcile raises, the table the run leaves behind is the table
\* of the last commit: no mutation made since then is visible (the cells of
\* the failing record included) and every committed mutation is.
C4_Atomicity ==
    (pc = "done" /\ raised # "none") => store = LastCommitted

\* C4 witness: a run that had committed rows failed on a later record after
\* that record had already written a cell
C4_Witness ==
    /\ pc = "done" /\ raised # "none"
    /\ LastCommitted # {}
    /\ i >= 3
    /\ \E k \in Writes(log) : log[k].raised = "none"

\* C8: a per-cell write error on one leaf does not stop the reconcile: the
\* remaining leaves of the record are still reconciled and the loop goes on
\* to the following records; only a connection fault ends the run.
C8_CellIsolation ==
    raised = "write_error"
        => /\ Len(log) = Len(flatten(issue.fields, <<>>))
           /\ pc = "loop"

\* C10: a commit inside the loop is issued exactly when a group of
\* CommitEvery records has been reconciled (after records N, 2N, ...), and a
\* run without errors ends with nothing uncommitted.
C10_CommitCadence ==
    /\ \A k \in 1..Len(commits) :
          commits[k].kind = "batch" => commits[k].n % CommitEvery = 0
    /\ (pc = "done" /\ raised = "none") => store = LastCommitted

(***************************************************************************)
(* Properties of the run of jira_fields.py.                                *)
(***************************************************************************)
\* C7: field_name is a function of field_id: every row of the table has
\* field_name = transform_field_name(field_id), and every INSERT the script
\* issues, the duplicate-key fallback included, carries that field_name.
C7_FieldNameOfFieldId ==
    /\ \A r \in store : r.field_name = transform_field_name(r.field_id)
    /\ \A k \in 1..Len(log) :
          log[k].op = "INSERT"
              => log[k].field_name = transform_field_name(log[k].field_id)

(***************************************************************************)
(* Properties of flattening.                                               *)
(***************************************************************************)
\* C6: the leaves of one record get pairwise distinct paths, so reconciling a
\* record into the empty table inserts one row per leaf and no leaf
\* overwrites the row of another leaf.
C6_UniqueLeafPaths ==
    (pc = "done" /\ raised = "none")
        => LET leaves == flatten(issue.fields, <<>>)
           IN  /\ \A j, k \in 1..Len(leaves) :
                     j # k => leaves[j].field_id # leaves[k].field_id
               /\ \A k \in 1..Len(log) : log[k].op = "INSERT"
               /\ Cardinality(work) = Len(leaves)

(***************************************************************************)
(* Properties of fetch_all_issues.                                         *)
(***************************************************************************)
\* C5: fetch_all_issues returns, whatever the search answers: a total that
\* changes between pages, one that never reaches zero, one that stays above
\* the number of issues the search hands out.
C5_FetchTerminates == <>(fpc = "returned")

(***************************************************************************)
(* Properties of two concurrent runs.                                      *)
(***************************************************************************)
RaceRows == Matching(store, RaceKey, RaceField)

\* C9: when both workers found the cell absent, the loser's uniqueness
\* violation is caught and retried as an update: both workers complete and
\* one row exists for the pair, holding one of the two incoming values.
C9_InsertRaceResolved ==
    (/\ \A w \in Workers : wpc[w] \in {"done", "failed"}
     /\ \A w \in Workers : ~field_exists(wresult[w]))
        => /\ \A w \in Workers : wpc[w] = "done"
           /\ Cardinality(RaceRows) = 1
           /\ \A r \in RaceRows : \E w \in Workers : r.field_value = adapt(wvalue[w])

(***************************************************************************)
(* Properties of the connections.                                          *)
(***************************************************************************)
\* C11: every connection an operation opens is closed on every exit path, so
\* when the script has ended, a run in which a statement raised included, no
\* connection is left open.
C11_ConnectionsReleased == pc = "done" => open_conns = 0

====
